---- MODULE Spec2Model ----
(***************************************************************************)
(* Model of the marketplace link builder (services/url_builder.py), of the  *)
(* marketplace link validator (services/link_validator.py) and of the      *)
(* analyze request that runs them (api/routes.py).                         *)
(*                                                                         *)
(* Text is modelled as a sequence of one-character strings, so that        *)
(* percent-encoding, template substitution, lower-casing and substring     *)
(* search are computed character by character as the code computes them.  *)
(***************************************************************************)
EXTENDS Integers, Sequences, FiniteSets, TLC

VARIABLES
    analysis,     \* the VisionAnalysisResult handed to build_marketplace_links
    max_links,    \* the max_links argument of build_marketplace_links
    links,        \* the list build_marketplace_links returned = validator input
    pc,           \* position: "start", "built", "gather", "done"
    outcome,      \* per link: what the fetch of that link's task met
    results,      \* per link: the slot asyncio.gather fills for that task
    valid_links,  \* the list validate_marketplace_links returns
    fetches,      \* number of GET requests issued by the validate calls
    gets,         \* per link: number of GET requests its URL has received
    calls,        \* number of validate calls already completed on these links
    fn,           \* a pure function applied on its own: its name and argument
    fn_out,       \* the value that application returned
    upload,       \* the uploaded file of the analyze request
    settings,     \* the Settings injected into the analyze request
    rpc,          \* position of the analyze request
    temp_file,    \* the request's temp upload file: "none", "written", "removed", "remove_failed"
    vision_calls, \* number of calls of vision_service.analyze_image
    vision_error, \* the message of the VisionAPIError the classifier raised
    response,     \* the HTTP response of the analyze request
    requests,     \* concurrent analyze requests: each one's position and data
    files         \* the names of the files in the upload directory

valvars == <<analysis, max_links, links, pc, outcome, results, valid_links, fetches, gets>>
fnvars == <<fn, fn_out>>
reqvars == <<upload, settings, rpc, temp_file, vision_calls, vision_error, response>>

concvars == <<requests, files>>

vars == <<valvars, calls, fnvars, reqvars, concvars>>

----------------------------------------------------------------------------
(* Bounds and program constants *)

\* largest explicit max_links argument tried besides the default
MaxLinksBound == 2

\* number of validate calls made in a row on the same list of links
MaxCalls == 2

\* longest phrase text handed to encode_query on its own
MaxTextLen == 2

\* default of the max_links parameter
DEFAULT_MAX_LINKS == 5

\* VisionAnalysisResult.search_queries: min_length / max_length
MinSearchQueries == 1
MaxSearchQueries == 3

Min(a, b) == IF a < b THEN a ELSE b
Max(a, b) == IF a > b THEN a ELSE b

----------------------------------------------------------------------------
(* services/url_builder.py *)

MARKETPLACE_URLS ==
    [book |->
        <<"abebooks",
          <<"h", "t", "t", "p", "s", ":", "/", "/", "w", "w", "w", ".", "a", "b", "e", "b", "o", "o", "k", "s", ".", "f", "r", "/", "s", "e", "r", "v", "l", "e", "t", "/", "S", "e", "a", "r", "c", "h", "R", "e", "s", "u", "l", "t", "s", "?", "k", "n", "=", "{", "q", "u", "e", "r", "y", "}", "&", "s", "t", "s", "=", "t">> >>,
     clothing |->
        <<"vinted",
          <<"h", "t", "t", "p", "s", ":", "/", "/", "w", "w", "w", ".", "v", "i", "n", "t", "e", "d", ".", "f", "r", "/", "c", "a", "t", "a", "l", "o", "g", "?", "s", "e", "a", "r", "c", "h", "_", "t", "e", "x", "t", "=", "{", "q", "u", "e", "r", "y", "}">> >>]

DEFAULT_MARKETPLACE ==
    <<"leboncoin",
      <<"h", "t", "t", "p", "s", ":", "/", "/", "w", "w", "w", ".", "l", "e", "b", "o", "n", "c", "o", "i", "n", ".", "f", "r", "/", "r", "e", "c", "h", "e", "r", "c", "h", "e", "?", "t", "e", "x", "t", "=", "{", "q", "u", "e", "r", "y", "}">> >>

\* mutant: a type missing from the table gets the table's last entry
get_marketplace_for_type_LastEntry(object_type) ==
    IF object_type \in DOMAIN MARKETPLACE_URLS
    THEN MARKETPLACE_URLS[object_type]
    ELSE MARKETPLACE_URLS.clothing

\* dict.get(object_type, DEFAULT_MARKETPLACE)
get_marketplace_for_type(object_type) ==
    IF object_type \in DOMAIN MARKETPLACE_URLS
    THEN MARKETPLACE_URLS[object_type]
    ELSE DEFAULT_MARKETPLACE

\* urllib.parse.quote never escapes these characters (its always-safe set)
AlwaysSafe ==
    {"a", "b", "c", "d", "e", "f", "g", "h", "i", "j", "k", "l", "m", "n", "o", "p", "q", "r", "s", "t", "u", "v", "w", "x", "y", "z", "A", "B", "C", "D", "E", "F", "G", "H", "I", "J", "K", "L", "M", "N", "O", "P", "Q", "R", "S", "T", "U", "V", "W", "X", "Y", "Z", "0", "1", "2", "3", "4", "5", "6", "7", "8", "9", "_", ".", "-", "~"}

\* the UTF-8 bytes of a character, each byte as its two upper-case hex digits
Utf8Bytes(c) ==
    CASE c = " " -> << <<"2", "0">> >>
      [] c = "#" -> << <<"2", "3">> >>
      [] c = "%" -> << <<"2", "5">> >>
      [] c = "&" -> << <<"2", "6">> >>
      [] c = "+" -> << <<"2", "B">> >>
      [] c = "/" -> << <<"2", "F">> >>
      [] c = "=" -> << <<"3", "D">> >>
      [] c = "?" -> << <<"3", "F">> >>
      [] c = "{" -> << <<"7", "B">> >>
      [] c = "}" -> << <<"7", "D">> >>
      [] c = "é" -> << <<"C", "3">>, <<"A", "9">> >>
      [] c = "à" -> << <<"C", "3">>, <<"A", "0">> >>

\* the characters the model can encode
Alphabet == AlwaysSafe \cup {" ", "#", "%", "&", "+", "/", "=", "?", "{", "}", "é", "à"}

\* quote(): one character -> itself when safe, else %XX for each UTF-8 byte
QuoteChar(c, safe) ==
    IF c \in AlwaysSafe \cup safe
    THEN <<c>>
    ELSE LET bs == Utf8Bytes(c)
             RECURSIVE esc(_)
             esc(i) == IF i > Len(bs) THEN <<>>
                       ELSE <<"%", bs[i][1], bs[i][2]>> \o esc(i + 1)
         IN esc(1)

RECURSIVE Quote(_, _)
Quote(s, safe) ==
    IF s = <<>> THEN <<>>
    ELSE QuoteChar(Head(s), safe) \o Quote(Tail(s), safe)

\* mutant: quote_plus(query, safe=""), a space becomes "+"
encode_query_QuotePlus(query) ==
    LET q == Quote(query, {" "})
    IN [i \in 1..Len(q) |-> IF q[i] = " " THEN "+" ELSE q[i]]

\* mutant: quote(query) with its default safe="/"
encode_query_DefaultSafe(query) == Quote(query, {"/"})

\* quote(query, safe="")
encode_query(query) == Quote(query, {})

\* Percent-decoding: each run of %XX escapes that is the UTF-8 encoding of a
\* character becomes that character, in one pass from the left; everything
\* else is kept.
Escape(c) ==
    LET bs == Utf8Bytes(c)
    IN IF Len(bs) = 1 THEN <<"%", bs[1][1], bs[1][2]>>
       ELSE <<"%", bs[1][1], bs[1][2], "%", bs[2][1], bs[2][2]>>

RECURSIVE Unquote(_)
Unquote(s) ==
    IF s = <<>> THEN <<>>
    ELSE LET hit == {c \in Alphabet \ AlwaysSafe :
                        /\ Len(Escape(c)) <= Len(s)
                        /\ SubSeq(s, 1, Len(Escape(c))) = Escape(c)}
         IN IF Head(s) = "%" /\ hit # {}
            THEN LET c == CHOOSE c \in hit : TRUE
                 IN <<c>> \o Unquote(SubSeq(s, Len(Escape(c)) + 1, Len(s)))
            ELSE <<Head(s)>> \o Unquote(Tail(s))

\* str.format(query=value) on a template holding the one field {query}
Format(template, value) ==
    LET open  == CHOOSE i \in 1..Len(template) : template[i] = "{"
        close == CHOOSE i \in 1..Len(template) : template[i] = "}"
    IN SubSeq(template, 1, open - 1) \o value \o SubSeq(template, close + 1, Len(template))

build_marketplace_link(marketplace_name, url_template, query) ==
    [marketplace |-> marketplace_name,
     query       |-> query,
     url         |-> Format(url_template, encode_query(query))]

\* mutant: the slice stops one element early, s[:m - 1]
PySlice_OffByOne(s, m) ==
    SubSeq(s, 1, Min(Max(m - 1, 0), Len(s)))

\* the Python slice s[:m]
PySlice(s, m) ==
    LET stop == IF m < 0 THEN Max(Len(s) + m, 0) ELSE Min(m, Len(s))
    IN SubSeq(s, 1, stop)

\* mutant: the links are collected in reverse phrase order
build_marketplace_links_Reversed(a, ml) ==
    LET mp == get_marketplace_for_type(a.object_type)
        qs == PySlice(a.search_queries, ml)
    IN [i \in 1..Len(qs) |->
            build_marketplace_link(mp[1], mp[2], qs[Len(qs) + 1 - i].query)]

\* mutant: the first phrase is given a second link
build_marketplace_links_ExtraLink(a, ml) ==
    LET mp == get_marketplace_for_type(a.object_type)
        qs == PySlice(a.search_queries, ml)
    IN [i \in 1..(Len(qs) + 1) |->
            build_marketplace_link(mp[1], mp[2], qs[IF i > Len(qs) THEN 1 ELSE i].query)]

build_marketplace_links(a, ml) ==
    LET mp == get_marketplace_for_type(a.object_type)
        qs == PySlice(a.search_queries, ml)
    IN [i \in 1..Len(qs) |-> build_marketplace_link(mp[1], mp[2], qs[i].query)]

----------------------------------------------------------------------------
(* Inputs *)

\* VisionAnalysisResult.object_type
ObjectTypes == {"book", "clothing", "electronics", "furniture", "tools", "general"}

PhraseTexts == { <<"c", "l", "é", " ", "à">>, <<"t", "-", "s", "&", "x">> }

\* SearchQuery: confidence in tenths
SearchQueries == [query : PhraseTexts, confidence : {8}]

SeqsOfLen(S, n) == [1..n -> S]

\* the lists of 1 to 3 queries in which no query directly repeats its predecessor
QueryLists ==
    { qs \in UNION { SeqsOfLen(SearchQueries, n) : n \in MinSearchQueries..MaxSearchQueries } :
        \A i \in 1..(Len(qs) - 1) : qs[i] # qs[i + 1] }

MaxLinksValues == (0..MaxLinksBound) \cup {DEFAULT_MAX_LINKS}

----------------------------------------------------------------------------
(* services/link_validator.py : check_for_results *)

\* MARKETPLACE_SELECTORS: the no-results phrases and the alternatives of the
\* CSS results selector of each marketplace
MARKETPLACE_SELECTORS ==
    [abebooks |->
        [no_results_text  |-> << <<"a", "u", "c", "u", "n", " ", "r", "é", "s", "u", "l", "t", "a", "t">>,
                                 <<"n", "o", " ", "r", "e", "s", "u", "l", "t", "s", " ", "f", "o", "u", "n", "d">>,
                                 <<"0", " ", "r", "é", "s", "u", "l", "t", "a", "t">> >>,
         results_selector |-> {".result-item", ".cf-search-results-content", "#srp-results"}],
     vinted |->
        [no_results_text  |-> << <<"a", "u", "c", "u", "n", " ", "a", "r", "t", "i", "c", "l", "e">>,
                                 <<"a", "u", "c", "u", "n", " ", "r", "é", "s", "u", "l", "t", "a", "t">> >>,
         results_selector |-> {".feed-grid__item", ".ItemBox_container", "[data-testid='item-box']"}],
     leboncoin |->
        [no_results_text  |-> << <<"a", "u", "c", "u", "n", "e", " ", "a", "n", "n", "o", "n", "c", "e">>,
                                 <<"0", " ", "a", "n", "n", "o", "n", "c", "e", " ", "t", "r", "o", "u", "v", "é", "e">>,
                                 <<"p", "a", "s", " ", "d", "e", " ", "r", "é", "s", "u", "l", "t", "a", "t">> >>,
         results_selector |-> {"[data-qa-id='aditem_container']", ".styles_adCard", "[data-test-id='ad']"}]]

UpperChars == <<"A", "B", "C", "D", "E", "F", "G", "H", "I", "J", "K", "L", "M", "N", "O", "P", "Q", "R", "S", "T", "U", "V", "W", "X", "Y", "Z", "É">>
LowerChars == <<"a", "b", "c", "d", "e", "f", "g", "h", "i", "j", "k", "l", "m", "n", "o", "p", "q", "r", "s", "t", "u", "v", "w", "x", "y", "z", "é">>

\* str.lower() on one character
LowerChar(c) ==
    IF \E i \in 1..Len(UpperChars) : UpperChars[i] = c
    THEN LowerChars[CHOOSE i \in 1..Len(UpperChars) : UpperChars[i] = c]
    ELSE c

\* str.lower()
Lower(s) == [i \in 1..Len(s) |-> LowerChar(s[i])]

\* the Python test  p in s  on strings
Contains(s, p) ==
    \E i \in 1..(Len(s) - Len(p) + 1) : SubSeq(s, i, i + Len(p) - 1) = p

\* mutant: the page text is compared without lower-casing it
check_for_results_CaseSensitive(html, marketplace) ==
    LET known     == marketplace \in DOMAIN MARKETPLACE_SELECTORS
        no_results_phrases ==
            IF known THEN MARKETPLACE_SELECTORS[marketplace].no_results_text ELSE <<>>
    IN ~ \E k \in 1..Len(no_results_phrases) :
              Contains(html.text, no_results_phrases[k])

\* mutant: matching result elements are looked for first
check_for_results_SelectorFirst(html, marketplace) ==
    LET known     == marketplace \in DOMAIN MARKETPLACE_SELECTORS
        page_text == Lower(html.text)
        no_results_phrases ==
            IF known THEN MARKETPLACE_SELECTORS[marketplace].no_results_text ELSE <<>>
        results_selector ==
            IF known THEN MARKETPLACE_SELECTORS[marketplace].results_selector ELSE {}
    IN IF results_selector # {} /\ (html.elements \cap results_selector) # {}
       THEN TRUE
       ELSE ~ \E k \in 1..Len(no_results_phrases) :
                 Contains(page_text, Lower(no_results_phrases[k]))

\* A page: text is what soup.get_text() yields, elements the selector
\* alternatives that some element of the page matches.
check_for_results(html, marketplace) ==
    LET known     == marketplace \in DOMAIN MARKETPLACE_SELECTORS
        page_text == Lower(html.text)
        no_results_phrases ==
            IF known THEN MARKETPLACE_SELECTORS[marketplace].no_results_text ELSE <<>>
        results_selector ==
            IF known THEN MARKETPLACE_SELECTORS[marketplace].results_selector ELSE {}
    IN IF \E k \in 1..Len(no_results_phrases) :
              Contains(page_text, Lower(no_results_phrases[k]))
       THEN FALSE
       ELSE IF results_selector # {} /\ (html.elements \cap results_selector) # {}
            THEN TRUE
            ELSE TRUE

\* the pages a fetch may return
Pages ==
    { [text |-> <<"N", "o", " ", "R", "e", "s", "u", "l", "t", "s", " ", "F", "o", "u", "n", "d">>,
       elements |-> {".result-item"}],
      [text |-> <<"A", "u", "c", "u", "n", " ", "R", "É", "S", "U", "L", "T", "A", "T">>,
       elements |-> {}],
      [text |-> <<"A", "u", "c", "u", "n", "e", " ", "A", "n", "n", "o", "n", "c", "e">>,
       elements |-> {".styles_adCard"}],
      [text |-> <<"3", " ", "a", "n", "n", "o", "n", "c", "e", "s">>,
       elements |-> {}] }

----------------------------------------------------------------------------
(* services/link_validator.py : validate_single_link *)

NoPage == [text |-> <<>>, elements |-> {}]

\* What the fetch of one link meets:
\*   page          a 2xx response, whose body is html
\*   timeout       client.get raises httpx.TimeoutException
\*   connect_error client.get raises httpx.ConnectError
\*   http_status   response.raise_for_status() raises httpx.HTTPStatusError
\*   check_error   reading or checking the page raises some other Exception
\*   cancelled     a BaseException that is no Exception (asyncio.CancelledError)
FailureKinds == {"timeout", "connect_error", "http_status", "check_error", "cancelled"}

FetchOutcomes ==
    { [kind |-> "page", html |-> h] : h \in Pages }
    \cup { [kind |-> k, html |-> NoPage] : k \in FailureKinds }

\* the exception classes the two except clauses test for
IsTimeoutException(kind) == kind = "timeout"
IsException(kind) == kind \in {"timeout", "connect_error", "http_status", "check_error"}

Returned(link, has_results) == [state |-> "returned", value |-> <<link, has_results>>]
Raised == [state |-> "raised", value |-> <<>>]
Pending == [state |-> "pending", value |-> <<>>]

\* mutant: a timeout is reported as "no results" (fail closed)
validate_single_link_FailClosed(link, o) ==
    IF o.kind = "page"
    THEN Returned(link, check_for_results(o.html, link.marketplace))
    ELSE IF IsTimeoutException(o.kind)
         THEN Returned(link, FALSE)
         ELSE IF IsException(o.kind)
              THEN Returned(link, TRUE)
              ELSE Raised

\* mutant: only the timeout is handled, any other exception propagates
validate_single_link_Propagate(link, o) ==
    IF o.kind = "page"
    THEN Returned(link, check_for_results(o.html, link.marketplace))
    ELSE IF IsTimeoutException(o.kind)
         THEN Returned(link, TRUE)
         ELSE Raised

\* mutant: a timed-out GET is attempted a second time
GetsIssued_Retry(o) == IF o.kind = "timeout" THEN 2 ELSE 1

\* the number of GET requests one run of validate_single_link issues: the one
\* client.get of the try block, whatever it meets
GetsIssued(o) == 1

\* the try block and its two handlers; an exception neither handler catches
\* leaves the coroutine
validate_single_link(link, o) ==
    IF o.kind = "page"
    THEN Returned(link, check_for_results(o.html, link.marketplace))
    ELSE IF IsTimeoutException(o.kind)
         THEN Returned(link, TRUE)
         ELSE IF IsException(o.kind)
              THEN Returned(link, TRUE)
              ELSE Raised

----------------------------------------------------------------------------
(* services/link_validator.py : validate_marketplace_links *)

\* mutant: the empty-list test is missing
NotLinks_Never(ls) == FALSE

\* `not links`
NotLinks(ls) == ls = <<>>

\* mutant: the loop ends at the first exception (break for continue)
RECURSIVE FilterResults_StopAtException(_)
FilterResults_StopAtException(rs) ==
    IF rs = <<>> THEN <<>>
    ELSE LET result == Head(rs)
         IN IF result.state = "raised"
            THEN <<>>
            ELSE IF result.value[2]
                 THEN <<result.value[1]>> \o FilterResults_StopAtException(Tail(rs))
                 ELSE FilterResults_StopAtException(Tail(rs))

\* mutant: has_results is not tested
RECURSIVE FilterResults_KeepAll(_)
FilterResults_KeepAll(rs) ==
    IF rs = <<>> THEN <<>>
    ELSE LET result == Head(rs)
         IN IF result.state = "raised"
            THEN FilterResults_KeepAll(Tail(rs))
            ELSE <<result.value[1]>> \o FilterResults_KeepAll(Tail(rs))

\* the loop over the gathered results: an exception is skipped, a tuple
\* contributes its link when has_results is true
RECURSIVE FilterResults(_)
FilterResults(rs) ==
    IF rs = <<>> THEN <<>>
    ELSE LET result == Head(rs)
         IN IF result.state = "raised"
            THEN FilterResults(Tail(rs))
            ELSE IF result.value[2]
                 THEN <<result.value[1]>> \o FilterResults(Tail(rs))
                 ELSE FilterResults(Tail(rs))

\* mutant: no fallback
Fallback_None(ls, valid) == valid

\* mutant: the fallback picks the last link
Fallback_LastLink(ls, valid) ==
    IF valid = <<>> /\ ls # <<>> THEN <<ls[Len(ls)]>> ELSE valid

\* `if not valid_links and links: valid_links = [links[0]]`
Fallback(ls, valid) ==
    IF valid = <<>> /\ ls # <<>> THEN <<ls[1]>> ELSE valid

----------------------------------------------------------------------------
(* The state machine: build the links, then validate them *)

\* no pure function is applied on its own
NoOutput == [returned |-> FALSE, value |-> <<>>]

FnIdle ==
    /\ fn = [name |-> "none", arg |-> <<>>]
    /\ fn_out = NoOutput

\* no analyze request is in progress
NoUpload == [size |-> 0, filename |-> <<>>, content |-> <<>>]
NoResponse == [status |-> 0, detail |-> "", links |-> <<>>]

ReqIdle ==
    /\ upload = NoUpload
    /\ settings = [link_validation_enabled |-> TRUE]
    /\ rpc = "none"
    /\ temp_file = "none"
    /\ vision_calls = 0
    /\ vision_error = ""
    /\ response = NoResponse

\* no concurrent requests are modelled
ConcIdle ==
    /\ requests = <<>>
    /\ files = {}

Init ==
    /\ ConcIdle
    /\ analysis \in [object_type : ObjectTypes, search_queries : QueryLists]
    /\ max_links \in MaxLinksValues
    /\ links = <<>>
    /\ pc = "start"
    /\ outcome = <<>>
    /\ results = <<>>
    /\ valid_links = <<>>
    /\ fetches = 0
    /\ gets = <<>>
    /\ calls = 0
    /\ FnIdle
    /\ ReqIdle

\* links = build_marketplace_links(analysis, max_links)
BuildLinks ==
    /\ pc = "start"
    /\ links' = build_marketplace_links(analysis, max_links)
    /\ pc' = "built"
    /\ gets' = [i \in 1..Len(links') |-> 0]
    /\ UNCHANGED <<analysis, max_links, outcome, results, valid_links, fetches>>
    /\ UNCHANGED <<calls, fnvars, reqvars, concvars>>

\* validate_marketplace_links(links) up to the await: the early return on an
\* empty list, else one task per link handed to asyncio.gather
ValidateCall ==
    /\ pc = "built"
    /\ IF NotLinks(links)
       THEN /\ valid_links' = links
            /\ pc' = "done"
            /\ UNCHANGED <<outcome, results>>
       ELSE /\ results' = [i \in 1..Len(links) |-> Pending]
            /\ outcome' = [i \in 1..Len(links) |-> "pending"]
            /\ pc' = "gather"
            /\ UNCHANGED valid_links
    /\ UNCHANGED <<analysis, max_links, links, fetches, gets>>
    /\ UNCHANGED <<calls, fnvars, reqvars, concvars>>

\* the task of link i runs validate_single_link: it issues its GET and
\* resolves; tasks resolve in any order, each into its own slot
\* mutant: the results are collected in completion order, each into the
\* first free slot
RunTask_CompletionOrder(i, o) ==
    /\ pc = "gather"
    /\ outcome[i] = "pending"
    /\ fetches' = fetches + GetsIssued(o)
    /\ gets' = [gets EXCEPT ![i] = @ + GetsIssued(o)]
    /\ outcome' = [outcome EXCEPT ![i] = o.kind]
    /\ LET free == CHOOSE k \in 1..Len(results) :
                      /\ results[k].state = "pending"
                      /\ \A j \in 1..(k - 1) : results[j].state # "pending"
       IN results' = [results EXCEPT ![free] = validate_single_link(links[i], o)]
    /\ UNCHANGED <<analysis, max_links, links, pc, valid_links>>
    /\ UNCHANGED <<calls, fnvars, reqvars, concvars>>

\* mutant: a failing fetch cancels the tasks still pending
RunTask_CancelOthers(i, o) ==
    /\ pc = "gather"
    /\ results[i].state = "pending"
    /\ fetches' = fetches + GetsIssued(o)
    /\ gets' = [gets EXCEPT ![i] = @ + GetsIssued(o)]
    /\ outcome' = [j \in 1..Len(outcome) |->
                     IF j = i THEN o.kind
                     ELSE IF o.kind # "page" /\ results[j].state = "pending" THEN "cancelled"
                     ELSE outcome[j]]
    /\ results' = [j \in 1..Len(results) |->
                     IF j = i THEN validate_single_link(links[i], o)
                     ELSE IF o.kind # "page" /\ results[j].state = "pending" THEN Raised
                     ELSE results[j]]
    /\ UNCHANGED <<analysis, max_links, links, pc, valid_links>>
    /\ UNCHANGED <<calls, fnvars, reqvars, concvars>>

RunTask(i, o) ==
    /\ pc = "gather"
    /\ results[i].state = "pending"
    /\ fetches' = fetches + GetsIssued(o)
    /\ gets' = [gets EXCEPT ![i] = @ + GetsIssued(o)]
    /\ outcome' = [outcome EXCEPT ![i] = o.kind]
    /\ results' = [results EXCEPT ![i] = validate_single_link(links[i], o)]
    /\ UNCHANGED <<analysis, max_links, links, pc, valid_links>>
    /\ UNCHANGED <<calls, fnvars, reqvars, concvars>>

\* gather returns once every task has resolved; then the filter loop, the
\* fallback and the return
\* mutant: the call goes on as soon as one task has resolved (as with
\* asyncio.wait(return_when=FIRST_COMPLETED)); unresolved slots are skipped
GatherReturn_FirstCompleted ==
    /\ pc = "gather"
    /\ \E i \in 1..Len(results) : results[i].state # "pending"
    /\ valid_links' = Fallback(links, FilterResults(
            [i \in 1..Len(results) |->
                IF results[i].state = "pending" THEN Raised ELSE results[i]]))
    /\ pc' = "done"
    /\ UNCHANGED <<analysis, max_links, links, outcome, results, fetches, gets>>
    /\ UNCHANGED <<calls, fnvars, reqvars, concvars>>

\* mutant: the call waits until every fetch has produced a page, so a fetch
\* that timed out or failed keeps it waiting
GatherReturn_WaitForPages ==
    /\ pc = "gather"
    /\ \A i \in 1..Len(results) : outcome[i] = "page"
    /\ valid_links' = Fallback(links, FilterResults(results))
    /\ pc' = "done"
    /\ UNCHANGED <<analysis, max_links, links, outcome, results, fetches, gets>>
    /\ UNCHANGED <<calls, fnvars, reqvars, concvars>>

GatherReturn ==
    /\ pc = "gather"
    /\ \A i \in 1..Len(results) : results[i].state # "pending"
    /\ valid_links' = Fallback(links, FilterResults(results))
    /\ pc' = "done"
    /\ UNCHANGED <<analysis, max_links, links, outcome, results, fetches, gets>>
    /\ UNCHANGED <<calls, fnvars, reqvars, concvars>>

Next ==
    \/ BuildLinks
    \/ ValidateCall
    \/ \E i \in 1..Len(links), o \in FetchOutcomes : RunTask(i, o)
    \/ GatherReturn

Spec == Init /\ [][Next]_vars

\* Scheduling: the event loop runs every step that is ready, and the fetch
\* of each link ends, with a response or with an exception, at the latest
\* when its timeout expires
Fairness ==
    /\ WF_vars(BuildLinks)
    /\ WF_vars(ValidateCall)
    /\ \A i \in 1..MaxSearchQueries :
          WF_vars(i \in 1..Len(links) /\ \E o \in FetchOutcomes : RunTask(i, o))
    /\ WF_vars(GatherReturn)

SpecLive == Spec /\ Fairness

----------------------------------------------------------------------------
(* Repeated validation: the caller validates the same links again *)

\* the caller calls validate_marketplace_links(links) once more: a new call
\* starts from its arguments alone, the module keeps no state between calls
CallAgain ==
    /\ pc = "done"
    /\ calls + 1 < MaxCalls
    /\ calls' = calls + 1
    /\ pc' = "built"
    /\ outcome' = <<>>
    /\ results' = <<>>
    /\ valid_links' = <<>>
    /\ UNCHANGED <<analysis, max_links, links, fetches, gets, fnvars, reqvars, concvars>>

NextCalls ==
    \/ Next
    \/ CallAgain

SpecCalls == Init /\ [][NextCalls]_vars

----------------------------------------------------------------------------
(* The pure functions applied on their own: the routing lookup, the query  *)
(* encoder, the link builders and the page check, each on an argument      *)
(* drawn from a bounded set                                                *)

\* no build-and-validate run is in progress
NoAnalysis == [object_type |-> "general", search_queries |-> <<>>]

ValIdle ==
    /\ analysis = NoAnalysis
    /\ max_links = DEFAULT_MAX_LINKS
    /\ links = <<>>
    /\ pc = "none"
    /\ outcome = <<>>
    /\ results = <<>>
    /\ valid_links = <<>>
    /\ fetches = 0
    /\ gets = <<>>
    /\ calls = 0

\* object_type strings: the six categories, an unknown one and the empty one
Categories == ObjectTypes \cup {"unknown", ""}

\* the characters of the phrase texts encoded on their own
TextChars == {"a", "Z", "7", "-", ".", "_", "~", " ", "%", "&", "+", "=", "/", "?", "#", "{", "}", "é", "à"}

Texts == UNION { SeqsOfLen(TextChars, n) : n \in 0..MaxTextLen }

\* what soup.get_text() may yield
PageTexts ==
    { <<>>,
      <<"3", " ", "a", "n", "n", "o", "n", "c", "e", "s">>,
      <<"N", "o", " ", "R", "e", "s", "u", "l", "t", "s", " ", "F", "o", "u", "n", "d">>,
      <<"s", "o", "r", "r", "y", ":", " ", "N", "O", " ", "R", "E", "S", "U", "L", "T", "S", " ", "F", "O", "U", "N", "D", ".">>,
      <<"A", "u", "c", "u", "n", " ", "R", "É", "S", "U", "L", "T", "A", "T">>,
      <<"0", " ", "r", "é", "s", "u", "l", "t", "a", "t">>,
      <<"A", "u", "c", "u", "n", " ", "a", "r", "t", "i", "c", "l", "e">>,
      <<"A", "u", "c", "u", "n", "e", " ", "A", "n", "n", "o", "n", "c", "e">>,
      <<"0", " ", "a", "n", "n", "o", "n", "c", "e", " ", "t", "r", "o", "u", "v", "é", "e">>,
      <<"P", "a", "s", " ", "d", "e", " ", "r", "é", "s", "u", "l", "t", "a", "t">> }

PageElements == { {}, {".result-item"}, {".feed-grid__item"}, {"[data-qa-id='aditem_container']"} }

CheckPages == [text : PageTexts, elements : PageElements]

MarketplaceNames == {"abebooks", "vinted", "leboncoin", "unknown"}

Templates == {MARKETPLACE_URLS.book, MARKETPLACE_URLS.clothing, DEFAULT_MARKETPLACE}

FnCalls ==
    { [name |-> "get_marketplace_for_type", arg |-> c] : c \in Categories }
    \cup { [name |-> "build_marketplace_links",
            arg |-> [object_type |-> c, search_queries |-> qs]] :
                c \in Categories, qs \in QueryLists }
    \cup { [name |-> "encode_query", arg |-> x] : x \in Texts }
    \cup { [name |-> "build_marketplace_link", arg |-> <<mp[1], mp[2], x>>] :
                mp \in Templates, x \in Texts }
    \cup { [name |-> "check_for_results", arg |-> <<h, m>>] :
                h \in CheckPages, m \in MarketplaceNames }

FnInit ==
    /\ ConcIdle
    /\ ValIdle
    /\ ReqIdle
    /\ fn \in FnCalls
    /\ fn_out = NoOutput

FnReturn(value) ==
    /\ ~fn_out.returned
    /\ fn_out' = [returned |-> TRUE, value |-> value]
    /\ UNCHANGED <<valvars, calls, fn, reqvars, concvars>>

ApplyGetMarketplaceForType ==
    /\ fn.name = "get_marketplace_for_type"
    /\ FnReturn(get_marketplace_for_type(fn.arg))

ApplyBuildMarketplaceLinks ==
    /\ fn.name = "build_marketplace_links"
    /\ FnReturn(build_marketplace_links(fn.arg, DEFAULT_MAX_LINKS))

ApplyEncodeQuery ==
    /\ fn.name = "encode_query"
    /\ FnReturn(encode_query(fn.arg))

ApplyBuildMarketplaceLink ==
    /\ fn.name = "build_marketplace_link"
    /\ FnReturn(build_marketplace_link(fn.arg[1], fn.arg[2], fn.arg[3]))

ApplyCheckForResults ==
    /\ fn.name = "check_for_results"
    /\ FnReturn(check_for_results(fn.arg[1], fn.arg[2]))

FnNext ==
    \/ ApplyGetMarketplaceForType
    \/ ApplyBuildMarketplaceLinks
    \/ ApplyEncodeQuery
    \/ ApplyBuildMarketplaceLink
    \/ ApplyCheckForResults

SpecFn == FnInit /\ [][FnNext]_vars

----------------------------------------------------------------------------
(* The analyze request: analyze_image_endpoint from the upload checks to   *)
(* the response and the temp file cleanup                                  *)

\* Settings.max_upload_size_mb
MAX_UPLOAD_SIZE_MB == 10

\* max_size = settings.max_upload_size_mb * 1024 * 1024
MaxSize == MAX_UPLOAD_SIZE_MB * 1024 * 1024

\* Settings.allowed_extensions
ALLOWED_EXTENSIONS ==
    { <<".", "j", "p", "g">>, <<".", "j", "p", "e", "g">>,
      <<".", "p", "n", "g">>, <<".", "w", "e", "b", "p">> }

\* the signatures in the order the dict is iterated; a byte is written as
\* its character when printable and as two hex digits otherwise
IMAGE_MAGIC_NUMBERS ==
    << [magic |-> <<"ff", "d8", "ff">>, mime_type |-> "image/jpeg"],
       [magic |-> <<"89", "P", "N", "G", "0d", "0a", "1a", "0a">>, mime_type |-> "image/png"],
       [magic |-> <<"R", "I", "F", "F">>, mime_type |-> "image/webp"],
       [magic |-> <<"G", "I", "F", "8", "7", "a">>, mime_type |-> "image/gif"],
       [magic |-> <<"G", "I", "F", "8", "9", "a">>, mime_type |-> "image/gif"] >>

\* bytes.startswith
StartsWith(s, prefix) ==
    /\ Len(s) >= Len(prefix)
    /\ SubSeq(s, 1, Len(prefix)) = prefix

\* s[a:b] of Python for 0 <= a <= b
PySub(s, a, b) == SubSeq(s, a + 1, Min(b, Len(s)))

\* validate_image_magic_numbers: the detected MIME type, or "" when it raises
\* ImageValidationError; content holds the first bytes of the file
validate_image_magic_numbers(content) ==
    LET header == PySub(content, 0, 8)
        hits == { i \in 1..Len(IMAGE_MAGIC_NUMBERS) :
                    StartsWith(header, IMAGE_MAGIC_NUMBERS[i].magic) }
        extended_header == PySub(content, 0, 12)
    IN  IF hits # {}
        THEN IMAGE_MAGIC_NUMBERS[CHOOSE i \in hits : \A j \in hits : i <= j].mime_type
        ELSE IF /\ PySub(header, 0, 4) = <<"R", "I", "F", "F">>
                /\ Len(header) >= 8
                /\ PySub(extended_header, 8, 12) = <<"W", "E", "B", "P">>
             THEN "image/webp"
             ELSE ""

\* Path(filename).suffix: from the last dot of the name on, empty when the
\* name has no dot or only a leading one
Suffix(filename) ==
    LET dots == { i \in 2..Len(filename) : filename[i] = "." }
    IN  IF dots = {} THEN <<>>
        ELSE SubSeq(filename, CHOOSE i \in dots : \A j \in dots : j <= i, Len(filename))

\* the checks of the upload in the order of the code: the message of the
\* ImageValidationError raised, or "" when every check passes (the numbers
\* and names formatted into two of the messages are left out)
UploadError_NoMagicCheck(u) ==
    IF u.size > MaxSize THEN "File too large"
    ELSE IF u.size = 0 THEN "Empty file uploaded"
    ELSE IF u.filename = <<>> THEN "No filename provided"
    ELSE IF Lower(Suffix(u.filename)) \notin ALLOWED_EXTENSIONS THEN "Invalid file type"
    ELSE ""

UploadError(u) ==
    IF u.size > MaxSize THEN "File too large"
    ELSE IF u.size = 0 THEN "Empty file uploaded"
    ELSE IF u.filename = <<>> THEN "No filename provided"
    ELSE IF Lower(Suffix(u.filename)) \notin ALLOWED_EXTENSIONS THEN "Invalid file type"
    ELSE IF validate_image_magic_numbers(u.content) = ""
         THEN "File is not a valid image (invalid magic numbers)"
    ELSE ""

\* MarketplaceSearchResponse.marketplace_links: min_length and max_length
MinMarketplaceLinks == 1
MaxMarketplaceLinks == 5

\* the first twelve bytes of uploaded files: a JPEG, a PNG, a WebP, a RIFF
\* file that is no WebP, a GIF and a text file
JpegHead == <<"ff", "d8", "ff", "e0", "00", "10", "J", "F", "I", "F", "00", "01">>
PngHead == <<"89", "P", "N", "G", "0d", "0a", "1a", "0a", "00", "00", "00", "0d">>
WebpHead == <<"R", "I", "F", "F", "24", "00", "00", "00", "W", "E", "B", "P">>
WaveHead == <<"R", "I", "F", "F", "24", "00", "00", "00", "W", "A", "V", "E">>
GifHead == <<"G", "I", "F", "8", "9", "a", "01", "00", "01", "00", "80", "00">>
TextHead == <<"n", "o", "t", " ", "a", "n", " ", "i", "m", "a", "g", "e">>

FileHeads == {JpegHead, PngHead, WebpHead, WaveHead, GifHead, TextHead}

\* file.filename: none, allowed and other extensions, no extension
FileNames ==
    { <<>>,
      <<"a", ".", "j", "p", "g">>,
      <<"a", ".", "P", "N", "G">>,
      <<"a", ".", "w", "e", "b", "p">>,
      <<"a", ".", "b", "m", "p">>,
      <<"a", ".", "j", "p", "g", ".", "t", "x", "t">>,
      <<"a">>,
      <<".", "j", "p", "g">> }

\* a small JPEG named a.jpg
BaseUpload == [size |-> Len(JpegHead), filename |-> <<"a", ".", "j", "p", "g">>, content |-> JpegHead]

\* the uploads of the requests: the base upload with its name, its bytes or
\* its size replaced, an empty file, and two uploads failing several checks
Uploads ==
    { [BaseUpload EXCEPT !.filename = f] : f \in FileNames }
    \cup { [BaseUpload EXCEPT !.content = c] : c \in FileHeads }
    \cup { [BaseUpload EXCEPT !.size = n] : n \in {MaxSize, MaxSize + 1} }
    \cup { [size |-> 0, filename |-> f, content |-> <<>>] :
                f \in {<<>>, <<"a", ".", "j", "p", "g">>} }
    \cup { [size |-> MaxSize + 1, filename |-> <<"a", ".", "b", "m", "p">>, content |-> TextHead] }

\* the classifications analyze_image returns in the requests
ReqObjectTypes == {"book", "general"}

ReqAnalyses == [object_type : ReqObjectTypes, search_queries : QueryLists]

\* messages of the VisionAPIError raised by analyze_image
VisionErrorMessages ==
    { "Vision API request timed out",
      "Unexpected response format from API",
      "API unavailable" }

\* how the call of analyze_image ends: it returns a classification, raises
\* VisionAPIError, or lets another exception escape (the resize of the
\* image is outside every try block)
VisionOutcomes ==
    { [kind |-> "returned", analysis |-> a, message |-> ""] : a \in ReqAnalyses }
    \cup { [kind |-> "VisionAPIError", analysis |-> NoAnalysis, message |-> m] :
                m \in VisionErrorMessages }
    \cup { [kind |-> "Exception", analysis |-> NoAnalysis, message |-> "cannot identify image file"] }

\* except ImageValidationError: HTTP 400 with the message of the error
ValidationErrorResponse(message) ==
    [status |-> 400, detail |-> message, links |-> <<>>]

\* except VisionAPIError: HTTP 503 with a fixed detail
VisionErrorResponse_Message(message) ==
    [status |-> 503, detail |-> message, links |-> <<>>]

VisionErrorResponse(message) ==
    [status |-> 503, detail |-> "Image analysis failed. Please try again later.", links |-> <<>>]

\* except Exception: HTTP 500 with a fixed detail
UnexpectedErrorResponse ==
    [status |-> 500, detail |-> "An unexpected error occurred.", links |-> <<>>]

\* the calls of vision_service.analyze_image one request makes
AnalyzeImageCalls_Retry(o) == IF o.kind = "VisionAPIError" THEN 2 ELSE 1

AnalyzeImageCalls(o) == 1

\* if settings.link_validation_enabled
ValidationEnabled_Always(s) == TRUE

ValidationEnabled(s) == s.link_validation_enabled

ReqInit ==
    /\ ConcIdle
    /\ ValIdle
    /\ FnIdle
    /\ upload \in Uploads
    /\ settings \in [link_validation_enabled : BOOLEAN]
    /\ rpc = "received"
    /\ temp_file = "none"
    /\ vision_calls = 0
    /\ vision_error = ""
    /\ response = NoResponse

\* the size, filename, extension and signature checks; a failed check raises
\* ImageValidationError, which the handler turns into the 400 response
CheckUpload ==
    /\ rpc = "received"
    /\ IF UploadError(upload) # ""
       THEN /\ response' = ValidationErrorResponse(UploadError(upload))
            /\ rpc' = "finally"
       ELSE /\ rpc' = "checked"
            /\ UNCHANGED response
    /\ UNCHANGED <<upload, settings, temp_file, vision_calls, vision_error>>
    /\ UNCHANGED <<valvars, calls, fnvars, concvars>>

\* temp_path is set and the upload is written under it
SaveUpload ==
    /\ rpc = "checked"
    /\ temp_file' = "written"
    /\ rpc' = "saved"
    /\ UNCHANGED <<upload, settings, vision_calls, vision_error, response>>
    /\ UNCHANGED <<valvars, calls, fnvars, concvars>>

\* analysis = await vision_service.analyze_image(temp_path, settings), with
\* the except branch its exception reaches
AnalyzeImage(o) ==
    /\ rpc = "saved"
    /\ vision_calls' = vision_calls + AnalyzeImageCalls(o)
    /\ CASE o.kind = "returned" ->
              /\ analysis' = o.analysis
              /\ pc' = "start"
              /\ rpc' = "analyzed"
              /\ UNCHANGED <<vision_error, response>>
         [] o.kind = "VisionAPIError" ->
              /\ vision_error' = o.message
              /\ response' = VisionErrorResponse(o.message)
              /\ rpc' = "finally"
              /\ UNCHANGED <<analysis, pc>>
         [] o.kind = "Exception" ->
              /\ response' = UnexpectedErrorResponse
              /\ rpc' = "finally"
              /\ UNCHANGED <<analysis, pc, vision_error>>
    /\ UNCHANGED <<upload, settings, temp_file>>
    /\ UNCHANGED <<max_links, links, outcome, results, valid_links, fetches, gets>>
    /\ UNCHANGED <<calls, fnvars, concvars>>

\* the validator is called only when the setting is on
ValidateLinks ==
    /\ ValidationEnabled(settings)
    /\ ValidateCall

\* the setting is off: the built links are kept as they are
SkipValidation ==
    /\ pc = "built"
    /\ ~ValidationEnabled(settings)
    /\ pc' = "skipped"
    /\ UNCHANGED <<analysis, max_links, links, outcome, results, valid_links, fetches, gets>>
    /\ UNCHANGED <<calls, fnvars, reqvars, concvars>>

\* the links the response is built from
FinalLinks == IF pc = "done" THEN valid_links ELSE links

\* return MarketplaceSearchResponse(...): the model validates the number of
\* links, its ValidationError reaches except Exception
Respond ==
    /\ rpc = "analyzed"
    /\ pc \in {"done", "skipped"}
    /\ response' =
         IF Len(FinalLinks) >= MinMarketplaceLinks /\ Len(FinalLinks) <= MaxMarketplaceLinks
         THEN [status |-> 200, detail |-> "", links |-> FinalLinks]
         ELSE UnexpectedErrorResponse
    /\ rpc' = "finally"
    /\ UNCHANGED <<upload, settings, temp_file, vision_calls, vision_error>>
    /\ UNCHANGED <<valvars, calls, fnvars, concvars>>

\* mutant: the temp file is removed only after a successful response
Cleanup_SuccessOnly(removed) ==
    /\ rpc = "finally"
    /\ temp_file' = IF temp_file = "written" /\ response.status = 200
                    THEN (IF removed THEN "removed" ELSE "remove_failed")
                    ELSE temp_file
    /\ rpc' = "finished"
    /\ UNCHANGED <<upload, settings, vision_calls, vision_error, response>>
    /\ UNCHANGED <<valvars, calls, fnvars, concvars>>

\* finally: the temp file is removed when temp_path is set and the file
\* exists; a failing os.remove is logged and the file stays
Cleanup(removed) ==
    /\ rpc = "finally"
    /\ temp_file' = IF temp_file = "written"
                    THEN (IF removed THEN "removed" ELSE "remove_failed")
                    ELSE temp_file
    /\ rpc' = "finished"
    /\ UNCHANGED <<upload, settings, vision_calls, vision_error, response>>
    /\ UNCHANGED <<valvars, calls, fnvars, concvars>>

ReqNext ==
    \/ CheckUpload
    \/ SaveUpload
    \/ \E o \in VisionOutcomes : AnalyzeImage(o)
    \/ BuildLinks
    \/ ValidateLinks
    \/ SkipValidation
    \/ \E i \in 1..Len(links), o \in FetchOutcomes : RunTask(i, o)
    \/ GatherReturn
    \/ Respond
    \/ \E removed \in BOOLEAN : Cleanup(removed)

SpecReq == ReqInit /\ [][ReqNext]_vars

----------------------------------------------------------------------------
(* The classifier call: vision_service.analyze_image on its own *)

\* the extensions MEDIA_TYPE_MAP has a media type for
MEDIA_TYPE_MAP ==
    { <<".", "j", "p", "g">>, <<".", "j", "p", "e", "g">>, <<".", "p", "n", "g">>,
      <<".", "w", "e", "b", "p">>, <<".", "g", "i", "f">> }

\* SearchQuery.query: min_length and max_length
MinQueryLength == 1
MaxQueryLength == 200

\* what VisionAnalysisResult.model_validate_json accepts of a parsed JSON
\* object (confidences in tenths)
SchemaValid(v) ==
    /\ v.object_type \in ObjectTypes
    /\ Len(v.description) >= 1
    /\ Len(v.search_queries) >= MinSearchQueries
    /\ Len(v.search_queries) <= MaxSearchQueries
    /\ \A i \in 1..Len(v.search_queries) :
          /\ Len(v.search_queries[i].query) >= MinQueryLength
          /\ Len(v.search_queries[i].query) <= MaxQueryLength
          /\ v.search_queries[i].confidence >= 0
          /\ v.search_queries[i].confidence <= 10
    /\ v.confidence >= 0
    /\ v.confidence <= 10

\* a phrase of n characters
LongPhrase(n) == [i \in 1..n |-> "a"]

Phrase == [query |-> <<"c", "l", "é", " ", "à">>, confidence |-> 9]

\* the JSON object of a well-formed reply
GoodReply ==
    [object_type |-> "book",
     description |-> <<"R", "o", "m", "a", "n">>,
     search_queries |-> <<Phrase>>,
     confidence |-> 9]

\* the JSON objects the API replies with: well-formed ones and ones that
\* break one constraint of the schema each
ReplyObjects ==
    { GoodReply,
      [GoodReply EXCEPT !.search_queries = <<Phrase, Phrase, Phrase>>],
      [GoodReply EXCEPT !.search_queries = <<[Phrase EXCEPT !.query = LongPhrase(MaxQueryLength)]>>],
      [GoodReply EXCEPT !.object_type = "vehicle"],
      [GoodReply EXCEPT !.description = <<>>],
      [GoodReply EXCEPT !.search_queries = <<>>],
      [GoodReply EXCEPT !.search_queries = <<Phrase, Phrase, Phrase, Phrase>>],
      [GoodReply EXCEPT !.search_queries = <<[Phrase EXCEPT !.query = <<>>]>>],
      [GoodReply EXCEPT !.search_queries = <<[Phrase EXCEPT !.query = LongPhrase(MaxQueryLength + 1)]>>],
      [GoodReply EXCEPT !.search_queries = <<[Phrase EXCEPT !.confidence = 11]>>],
      [GoodReply EXCEPT !.confidence = 11],
      [GoodReply EXCEPT !.confidence = -1] }

NoReplyObject == [object_type |-> "", description |-> <<>>, search_queries |-> <<>>, confidence |-> 0]

\* the response of client.messages.create: no content block, a first block
\* without text, text that holds no JSON, or text that holds a JSON object
Replies ==
    { [kind |-> k, value |-> NoReplyObject] : k \in {"no_content", "no_text", "not_json"} }
    \cup { [kind |-> "json", value |-> v] : v \in ReplyObjects }

\* image_path: the temp file's name
ImagePaths ==
    { <<"u", ".", "j", "p", "g">>, <<"u", ".", "G", "I", "F">>,
      <<"u", ".", "b", "m", "p">>, <<"u">> }

\* one call of analyze_image and what its collaborators do:
\*   readable  the file can be opened and read
\*   resize    "none" when the image is small enough, else whether Pillow
\*             can open, resize and save the bytes ("ok") or raises ("fails")
\*   api       client.messages.create returns, times out or raises APIError
AnalyzeCalls ==
    [image_path : ImagePaths, readable : BOOLEAN, resize : {"none", "ok", "fails"},
     api : {"ok", "timeout", "api_error"}, reply : Replies]

VisionRaised(exception) == [kind |-> exception, value |-> NoReplyObject]

\* analyze_image in the order of its statements: get_media_type, the file
\* read, the resize (outside every try block: what Pillow raises escapes as
\* it is), then the try block, whose every exception becomes VisionAPIError
analyze_image(c) ==
    IF Lower(Suffix(c.image_path)) \notin MEDIA_TYPE_MAP THEN VisionRaised("VisionAPIError")
    ELSE IF ~c.readable THEN VisionRaised("VisionAPIError")
    ELSE IF c.resize = "fails" THEN VisionRaised("Exception")
    ELSE IF c.api # "ok" THEN VisionRaised("VisionAPIError")
    ELSE IF c.reply.kind # "json" THEN VisionRaised("VisionAPIError")
    ELSE IF ~SchemaValid(c.reply.value) THEN VisionRaised("VisionAPIError")
    ELSE [kind |-> "returned", value |-> c.reply.value]

VisionInit ==
    /\ ConcIdle
    /\ ValIdle
    /\ ReqIdle
    /\ fn \in { [name |-> "analyze_image", arg |-> c] : c \in AnalyzeCalls }
    /\ fn_out = NoOutput

ApplyAnalyzeImage ==
    /\ fn.name = "analyze_image"
    /\ FnReturn(analyze_image(fn.arg))

VisionNext == ApplyAnalyzeImage

SpecVision == VisionInit /\ [][VisionNext]_vars

----------------------------------------------------------------------------
(* Concurrent analyze requests: the handler runs once per request, the     *)
(* runs interleave at its awaits and share only the upload directory       *)

\* number of requests in flight together
MaxRequests == 2

Requests == 1..MaxRequests

\* the values uuid.uuid4() may return, as numbers; 0 stands for temp_path = None
UuidNames == 1..MaxRequests

\* mutant: the temp file is named after a fixed string instead of a uuid
Uuid4_Fixed(taken) == {1}

\* uuid.uuid4(): a value no other temp file of the process is named after
Uuid4(taken) == UuidNames \ taken

\* an image and a text file, both named a.jpg
ConcUploads == {BaseUpload, [BaseUpload EXCEPT !.content = TextHead]}

\* the classification analyze_image returns in these requests
ConcAnalysis == [object_type |-> "book", search_queries |-> <<Phrase>>]

\* how the API call of analyze_image ends
ConcVisionKinds == {"returned", "VisionAPIError", "Exception"}

\* what the validation fetch of the request's link meets
ConcFetchOutcomes == { o \in FetchOutcomes : o.kind \in {"page", "timeout"} }

NewRequest(u) ==
    [upload |-> u, rpc |-> "received", temp_path |-> 0, vision |-> "none",
     status |-> 0, links |-> <<>>]

\* the names other requests have given their temp files
TakenNames(r) == { requests[s].temp_path : s \in Requests \ {r} } \ {0}

\* finally: os.remove(temp_path) when temp_path is set and the file exists
FilesAfterCleanup(path, removed) ==
    IF path # 0 /\ path \in files /\ removed THEN files \ {path} ELSE files

ConcInit ==
    /\ ValIdle
    /\ FnIdle
    /\ ReqIdle
    /\ requests \in [Requests -> { NewRequest(u) : u \in ConcUploads }]
    /\ files = {}

\* request r up to its first write: the upload checks, which end the
\* request with 400, or the choice of its temp file's name
StartRequest(r) ==
    /\ requests[r].rpc = "received"
    /\ IF UploadError(requests[r].upload) # ""
       THEN requests' = [requests EXCEPT ![r].status = 400, ![r].rpc = "finished"]
       ELSE \E name \in Uuid4(TakenNames(r)) :
                requests' = [requests EXCEPT ![r].temp_path = name, ![r].rpc = "named"]
    /\ UNCHANGED <<files, valvars, calls, fnvars, reqvars>>

\* request r writes its upload under its temp path
SaveRequest(r) ==
    /\ requests[r].rpc = "named"
    /\ files' = files \cup {requests[r].temp_path}
    /\ requests' = [requests EXCEPT ![r].rpc = "saved"]
    /\ UNCHANGED <<valvars, calls, fnvars, reqvars>>

\* analyze_image of request r reads the temp file; a file that cannot be
\* read raises VisionAPIError, which ends the request with 503
ReadRequest(r, removed) ==
    /\ requests[r].rpc = "saved"
    /\ IF requests[r].temp_path \in files
       THEN /\ requests' = [requests EXCEPT ![r].rpc = "read"]
            /\ UNCHANGED files
       ELSE /\ requests' = [requests EXCEPT ![r].vision = "unreadable",
                                            ![r].status = 503, ![r].rpc = "finished"]
            /\ files' = FilesAfterCleanup(requests[r].temp_path, removed)
    /\ UNCHANGED <<valvars, calls, fnvars, reqvars>>

\* the API call of request r: a classification, from which the links are
\* built, or an exception, which ends the request with 503 or 500 and
\* runs the cleanup
ClassifyRequest(r, kind, removed) ==
    /\ requests[r].rpc = "read"
    /\ IF kind = "returned"
       THEN /\ requests' = [requests EXCEPT
                              ![r].vision = kind,
                              ![r].links = build_marketplace_links(ConcAnalysis, DEFAULT_MAX_LINKS),
                              ![r].rpc = "validating"]
            /\ UNCHANGED files
       ELSE /\ requests' = [requests EXCEPT
                              ![r].vision = kind,
                              ![r].status = IF kind = "VisionAPIError" THEN 503 ELSE 500,
                              ![r].rpc = "finished"]
            /\ files' = FilesAfterCleanup(requests[r].temp_path, removed)
    /\ UNCHANGED <<valvars, calls, fnvars, reqvars>>

\* the validation of request r's link, the response and the cleanup
ValidateRequest(r, o, removed) ==
    /\ requests[r].rpc = "validating"
    /\ requests' = [requests EXCEPT
                      ![r].links = Fallback(@, FilterResults(<<validate_single_link(@[1], o)>>)),
                      ![r].status = 200,
                      ![r].rpc = "finished"]
    /\ files' = FilesAfterCleanup(requests[r].temp_path, removed)
    /\ UNCHANGED <<valvars, calls, fnvars, reqvars>>

ConcNext ==
    \/ \E r \in Requests : StartRequest(r)
    \/ \E r \in Requests : SaveRequest(r)
    \/ \E r \in Requests, removed \in BOOLEAN : ReadRequest(r, removed)
    \/ \E r \in Requests, kind \in ConcVisionKinds, removed \in BOOLEAN :
            ClassifyRequest(r, kind, removed)
    \/ \E r \in Requests, o \in ConcFetchOutcomes, removed \in BOOLEAN :
            ValidateRequest(r, o, removed)

SpecConc == ConcInit /\ [][ConcNext]_vars

----------------------------------------------------------------------------
(* Vocabulary of the properties *)

Done == pc = "done"

\* link i was classified "has results" / "no results" by its task
HasResults(i) == results[i].state = "returned" /\ results[i].value[2]
NoResults(i) == results[i].state = "returned" /\ ~results[i].value[2]
TaskRaised(i) == results[i].state = "raised"

\* the failures validate_single_link handles: exceptions derived from Exception
FetchErrorKinds == {"timeout", "connect_error", "http_status", "check_error"}

\* out is the subsequence of ls at exactly the positions in keep, in order
IsSubsequenceAt(out, ls, keep) ==
    \E f \in [1..Len(out) -> 1..Len(ls)] :
        /\ \A k \in 1..(Len(out) - 1) : f[k] < f[k + 1]
        /\ {f[k] : k \in 1..Len(out)} = keep
        /\ \A k \in 1..Len(out) : out[k] = ls[f[k]]

KeptPositions == {i \in 1..Len(links) : HasResults(i)}

----------------------------------------------------------------------------
(* C1: for a non-empty input list, whatever the per-link outcomes (has     *)
(* results, no results, fetch error, task raising), the list               *)
(* validate_marketplace_links returns is non-empty.                        *)
C1_NeverEmpty ==
    (Done /\ links # <<>>) => valid_links # <<>>

\* a finished call on two or more links where one task raised and another
\* link was classified "no results"
C1_Witness ==
    /\ Done
    /\ Len(links) >= 2
    /\ \E i \in 1..Len(links) : TaskRaised(i)
    /\ \E i \in 1..Len(links) : NoResults(i)
    /\ valid_links # <<>>

(* C2: when every link of a non-empty input list is classified "no         *)
(* results", the returned list is exactly the first input link.            *)
C2_AllNoResultsFallback ==
    (Done /\ links # <<>> /\ \A i \in 1..Len(links) : NoResults(i))
        => valid_links = <<links[1]>>

C2_Witness ==
    /\ Done
    /\ Len(links) = 3
    /\ \A i \in 1..Len(links) : NoResults(i)
    /\ valid_links = <<links[1]>>

(* C3, as claimed: when the fetch of every link of a non-empty list fails  *)
(* with an error, exactly the first input link is returned.                *)
C3_AllErrorsOneLink ==
    (Done /\ links # <<>> /\ \A i \in 1..Len(links) : outcome[i] \in FetchErrorKinds)
        => valid_links = <<links[1]>>

(* C3, amended: when the fetch of every link fails with a timeout, a       *)
(* connection error, a non-2xx status or another Exception, every link is  *)
(* classified "has results" and the whole input list is returned in order. *)
C3_AllErrorsAllLinks ==
    (Done /\ links # <<>> /\ \A i \in 1..Len(links) : outcome[i] \in FetchErrorKinds)
        => valid_links = links

C3_Witness ==
    /\ Done
    /\ Len(links) = 3
    /\ \A i \in 1..Len(links) : outcome[i] \in FetchErrorKinds
    /\ \E i \in 1..Len(links) : outcome[i] = "timeout"
    /\ \E i \in 1..Len(links) : outcome[i] = "http_status"
    /\ valid_links = links

(* C4: validate_single_link fails open: for a timeout, a connection error, *)
(* a non-2xx status or any other Exception during the fetch or the page    *)
(* check it does not raise and returns (link, True), the link unchanged.   *)
C4_FailOpen ==
    \A i \in 1..Len(results) :
        outcome[i] \in FetchErrorKinds => results[i] = Returned(links[i], TRUE)

C4_Witness ==
    /\ Len(results) = 3
    /\ outcome[1] = "connect_error" /\ results[1] = Returned(links[1], TRUE)
    /\ outcome[2] = "check_error" /\ results[2] = Returned(links[2], TRUE)
    /\ outcome[3] = "timeout" /\ results[3] = Returned(links[3], TRUE)

(* C5, as claimed: every link whose validation ended in a failure of any   *)
(* kind, an exception collected by the gather included, is in the list     *)
(* validate_marketplace_links returns.                                     *)
C5_NoFailureHidesLink ==
    Done => \A i \in 1..Len(results) :
                outcome[i] \in FailureKinds
                    => \E k \in 1..Len(valid_links) : valid_links[k] = links[i]

(* C6, as claimed: if some task raises, the call returns exactly the other *)
(* links classified "has results", in input order, the raising link        *)
(* omitted.                                                                *)
C6_RaisingLinkOmitted ==
    (Done /\ \E i \in 1..Len(links) : TaskRaised(i))
        => IsSubsequenceAt(valid_links, links, KeptPositions)

(* C6, amended: if some task raises and at least one other link is         *)
(* classified "has results", the call returns exactly the links classified *)
(* "has results", in input order, the raising link omitted; if no link is  *)
(* classified "has results" it returns the first input link alone, even    *)
(* when that is the raising link.                                          *)
C6_RaisingLinkOmittedOrFallback ==
    (Done /\ \E i \in 1..Len(links) : TaskRaised(i))
        => IF KeptPositions # {}
           THEN /\ IsSubsequenceAt(valid_links, links, KeptPositions)
                /\ \A k \in 1..Len(valid_links) :
                       \E i \in KeptPositions : valid_links[k] = links[i]
           ELSE valid_links = <<links[1]>>

\* three links, the second raising, the others valid: two links returned
C6_Witness ==
    /\ Done
    /\ Len(links) = 3
    /\ HasResults(1) /\ TaskRaised(2) /\ HasResults(3)
    /\ valid_links = <<links[1], links[3]>>

(* C7: when at least one link is classified "has results", the call        *)
(* returns exactly the subsequence of the input made of the links          *)
(* classified "has results", in input order, each equal to its input link; *)
(* when all are classified "has results" the output is the input list.     *)
C7_ExactlyTheValidLinks ==
    (Done /\ KeptPositions # {})
        => /\ IsSubsequenceAt(valid_links, links, KeptPositions)
           /\ (KeptPositions = 1..Len(links) => valid_links = links)

C7_Witness ==
    /\ Done
    /\ Len(links) = 3
    /\ NoResults(1) /\ HasResults(2) /\ HasResults(3)
    /\ valid_links = <<links[2], links[3]>>

(* C8: on an empty list validate_marketplace_links returns the empty list  *)
(* at once: in one step, with no task spawned, no fetch issued, no error.  *)
C8_EmptyReturnsImmediately ==
    [][(pc = "built" /\ links = <<>>)
          => (pc' = "done" /\ valid_links' = <<>> /\ fetches' = 0 /\ results' = <<>>)]_vars

C8_Witness ==
    /\ Done
    /\ links = <<>>
    /\ valid_links = <<>>
    /\ fetches = 0

(* C11: routing is total and single-category: 'book' gives 'abebooks',     *)
(* 'clothing' gives 'vinted', every other object type (electronics,        *)
(* furniture, tools, general, an unknown or empty string) gives the        *)
(* default 'leboncoin'; the lookup always returns, and all links built for *)
(* one classification carry that one marketplace.                          *)
ExpectedMarketplace(c) ==
    IF c = "book" THEN "abebooks"
    ELSE IF c = "clothing" THEN "vinted"
    ELSE "leboncoin"

C11_RoutingTotal ==
    /\ (fn.name = "get_marketplace_for_type" /\ fn_out.returned)
          => fn_out.value[1] = ExpectedMarketplace(fn.arg)
    /\ (fn.name = "build_marketplace_links" /\ fn_out.returned)
          => /\ Len(fn_out.value) = Len(fn.arg.search_queries)
             /\ \A i \in 1..Len(fn_out.value) :
                   fn_out.value[i].marketplace = ExpectedMarketplace(fn.arg.object_type)

\* three links built for an object type that is not in the table
C11_Witness ==
    /\ fn.name = "build_marketplace_links"
    /\ fn.arg.object_type = "unknown"
    /\ fn_out.returned
    /\ Len(fn_out.value) = 3
    /\ \A i \in 1..3 : fn_out.value[i].marketplace = "leboncoin"

\* the value build_marketplace_link put in place of the {query} field
SubstitutedValue(url, template) ==
    LET open  == CHOOSE i \in 1..Len(template) : template[i] = "{"
        close == CHOOSE i \in 1..Len(template) : template[i] = "}"
    IN SubSeq(url, open, Len(url) - (Len(template) - close))

(* C12: round trip: percent-decoding the value build_marketplace_link      *)
(* substituted into the URL template gives back the original phrase text.  *)
C12_RoundTrip ==
    (fn.name = "build_marketplace_link" /\ fn_out.returned)
        => Unquote(SubstitutedValue(fn_out.value.url, fn.arg[2])) = fn.arg[3]

\* a phrase with a space and a two-byte character, in the template that has
\* a parameter after the query
C12_Witness ==
    /\ fn.name = "build_marketplace_link"
    /\ fn.arg[1] = "abebooks"
    /\ fn.arg[3] = <<" ", "é">>
    /\ fn_out.returned
    /\ SubstitutedValue(fn_out.value.url, fn.arg[2]) = <<"%", "2", "0", "%", "C", "3", "%", "A", "9">>

\* letters, digits, '-', '.', '_', '~'
Unreserved ==
    {"a", "b", "c", "d", "e", "f", "g", "h", "i", "j", "k", "l", "m", "n", "o", "p", "q", "r", "s", "t", "u", "v", "w", "x", "y", "z", "A", "B", "C", "D", "E", "F", "G", "H", "I", "J", "K", "L", "M", "N", "O", "P", "Q", "R", "S", "T", "U", "V", "W", "X", "Y", "Z", "0", "1", "2", "3", "4", "5", "6", "7", "8", "9", "-", ".", "_", "~"}

\* the number of UTF-8 bytes of a character of TextChars
Utf8Len(c) == IF c \in {"é", "à"} THEN 2 ELSE 1

EscapedLen(c) == IF c \in Unreserved THEN 1 ELSE 3 * Utf8Len(c)

RECURSIVE SumEscapedLen(_)
SumEscapedLen(x) == IF x = <<>> THEN 0 ELSE EscapedLen(Head(x)) + SumEscapedLen(Tail(x))

Occurrences(x, chars) == Cardinality({i \in 1..Len(x) : x[i] \in chars})

UrlDelimiters == {"&", "=", "?", "#", "/", " ", "+", "{", "}"}

(* C13: encode_query leaves only unreserved characters unescaped: its      *)
(* output holds nothing but unreserved characters and %XX escapes, one     *)
(* escape per UTF-8 byte of every other character (a space is %20, never   *)
(* '+'), so the URL built from a phrase has exactly the delimiters of its  *)
(* template: a phrase adds or ends no URL parameter.                       *)
C13_OnlyUnreservedUnescaped ==
    /\ (fn.name = "encode_query" /\ fn_out.returned)
          => /\ \A k \in 1..Len(fn_out.value) : fn_out.value[k] \in Unreserved \cup {"%"}
             /\ Len(fn_out.value) = SumEscapedLen(fn.arg)
             /\ \A k \in 1..Len(fn_out.value) :
                   fn_out.value[k] = "%" =>
                       /\ k + 2 <= Len(fn_out.value)
                       /\ fn_out.value[k + 1] \in {"2", "3", "7", "C", "A"}
             /\ (fn.arg = <<" ">> => fn_out.value = <<"%", "2", "0">>)
             /\ (fn.arg = <<"é">> => fn_out.value = <<"%", "C", "3", "%", "A", "9">>)
             /\ (fn.arg = <<"&", "=">> => fn_out.value = <<"%", "2", "6", "%", "3", "D">>)
    /\ (fn.name = "build_marketplace_link" /\ fn_out.returned)
          => Occurrences(fn_out.value.url, UrlDelimiters)
                = Occurrences(fn.arg[2], UrlDelimiters) - 2

\* the phrase "&=" built into the template that has a parameter after it
C13_Witness ==
    /\ fn.name = "build_marketplace_link"
    /\ fn.arg[1] = "abebooks"
    /\ fn.arg[3] = <<"&", "=">>
    /\ fn_out.returned
    /\ Occurrences(fn_out.value.url, {"&", "="}) = 3

\* the lower-cased page text holds one of the marketplace's no-results phrases
HoldsNoResultsPhrase(text, marketplace) ==
    /\ marketplace \in {"abebooks", "vinted", "leboncoin"}
    /\ \E k \in 1..Len(MARKETPLACE_SELECTORS[marketplace].no_results_text) :
          Contains(Lower(text), MARKETPLACE_SELECTORS[marketplace].no_results_text[k])

(* C14: check_for_results returns False if and only if the marketplace is  *)
(* a recognized one and the lower-cased page text holds one of its         *)
(* no-results phrases; otherwise (result elements or not, empty page,      *)
(* unrecognized marketplace) it returns True.                              *)
C14_FalseIffNoResultsPhrase ==
    (fn.name = "check_for_results" /\ fn_out.returned)
        => (fn_out.value = FALSE <=> HoldsNoResultsPhrase(fn.arg[1].text, fn.arg[2]))

\* an upper-case no-results phrase beside a matching result element
C14_Witness ==
    /\ fn.name = "check_for_results"
    /\ fn.arg[2] = "vinted"
    /\ fn.arg[1].text = <<"A", "u", "c", "u", "n", " ", "R", "É", "S", "U", "L", "T", "A", "T">>
    /\ fn.arg[1].elements = {".feed-grid__item"}
    /\ fn_out.returned
    /\ fn_out.value = FALSE

NoResultsFound == <<"n", "o", " ", "r", "e", "s", "u", "l", "t", "s", " ", "f", "o", "u", "n", "d">>

(* C15, as claimed: for each of abebooks, vinted and leboncoin a page      *)
(* whose text holds "no results found" in any letter case is classified    *)
(* "no results", result elements or not.                                   *)
C15_NoResultsFoundEverywhere ==
    (/\ fn.name = "check_for_results"
     /\ fn_out.returned
     /\ fn.arg[2] \in {"abebooks", "vinted", "leboncoin"}
     /\ Contains(Lower(fn.arg[1].text), NoResultsFound))
        => fn_out.value = FALSE

(* C15, amended: for abebooks, the one marketplace whose phrase list holds *)
(* it, a page whose text holds "no results found" in any letter case is    *)
(* classified "no results", result elements or not; for vinted and         *)
(* leboncoin such a page is classified "has results" unless it holds one   *)
(* of their own phrases.                                                   *)
C15_NoResultsFoundAbebooks ==
    (/\ fn.name = "check_for_results"
     /\ fn_out.returned
     /\ Contains(Lower(fn.arg[1].text), NoResultsFound))
        => /\ fn.arg[2] = "abebooks" => fn_out.value = FALSE
           /\ (fn.arg[2] \in {"vinted", "leboncoin"}
                  /\ ~HoldsNoResultsPhrase(fn.arg[1].text, fn.arg[2]))
                 => fn_out.value = TRUE

C15_Witness ==
    /\ fn.name = "check_for_results"
    /\ fn.arg[2] = "abebooks"
    /\ fn.arg[1].text = <<"s", "o", "r", "r", "y", ":", " ", "N", "O", " ", "R", "E", "S", "U", "L", "T", "S", " ", "F", "O", "U", "N", "D", ".">>
    /\ fn.arg[1].elements = {".result-item"}
    /\ fn_out.returned
    /\ fn_out.value = FALSE

(* C16: each validate call on n links issues exactly n GET requests, one   *)
(* per input link, whatever the fetches meet (a failed or timed-out fetch  *)
(* is not retried), and a later call on the same links fetches each of    *)
(* them again (nothing is cached).                                         *)
C16_OneFetchPerLinkPerCall ==
    /\ pc = "gather" =>
          \A i \in 1..Len(links) :
              gets[i] = calls + (IF results[i].state = "pending" THEN 0 ELSE 1)
    /\ Done =>
          /\ \A i \in 1..Len(links) : gets[i] = calls + 1
          /\ fetches = (calls + 1) * Len(links)

\* the second call on three links has returned; in it the first fetch timed
\* out; every link has been fetched twice
C16_Witness ==
    /\ Done
    /\ calls = 1
    /\ Len(links) = 3
    /\ outcome[1] = "timeout"
    /\ \A i \in 1..3 : gets[i] = 2
    /\ fetches = 6

(* C9: for n >= 1 phrases and max_links >= 1, build_marketplace_links      *)
(* returns min(n, max_links) links, hence at least one.                    *)
C9_LengthIsMin ==
    (pc # "start" /\ Len(analysis.search_queries) >= 1 /\ max_links >= 1)
        => /\ Len(links) = Min(Len(analysis.search_queries), max_links)
           /\ links # <<>>

\* three phrases truncated to two links
C9_Witness ==
    /\ pc = "built"
    /\ Len(analysis.search_queries) = 3
    /\ max_links = 2
    /\ Len(links) = 2

(* C10: the i-th link is built from the i-th phrase alone: its query field *)
(* is the unencoded phrase text and its URL is the marketplace template    *)
(* with the encoding of that phrase substituted.                           *)
C10_OrderAndOneToOne ==
    pc # "start" =>
        /\ Len(links) <= Len(analysis.search_queries)
        /\ \A i \in 1..Len(links) :
              /\ links[i].query = analysis.search_queries[i].query
              /\ links[i].url =
                    Format(get_marketplace_for_type(analysis.object_type)[2],
                           encode_query(analysis.search_queries[i].query))

C10_Witness ==
    /\ pc = "built"
    /\ Len(links) = 3
    /\ links[1].query # links[2].query
    /\ links[2].query = analysis.search_queries[2].query

----------------------------------------------------------------------------
(* The analyze request *)

\* the handler has left its try block: the response is decided
Responded == rpc \in {"finally", "finished"}

\* C17: validation is gated by link_validation_enabled in the request: with
\* the setting off no fetch is ever issued and a successful response carries
\* exactly the list build_marketplace_links produced; with the setting on a
\* successful response carries the list validate_marketplace_links returned
\* for that list
C17_ValidationGated ==
    /\ ~settings.link_validation_enabled =>
          /\ fetches = 0
          /\ \A i \in 1..Len(gets) : gets[i] = 0
          /\ pc # "gather"
    /\ (Responded /\ response.status = 200) =>
          /\ links = build_marketplace_links(analysis, DEFAULT_MAX_LINKS)
          /\ IF settings.link_validation_enabled
             THEN /\ pc = "done"
                  /\ valid_links = Fallback(links, FilterResults(results))
                  /\ response.links = valid_links
             ELSE /\ pc = "skipped"
                  /\ response.links = links

\* a request with validation off has answered with all three built links
C17_Witness ==
    /\ rpc = "finished"
    /\ ~settings.link_validation_enabled
    /\ response.status = 200
    /\ Len(response.links) = 3
    /\ fetches = 0

\* C18: a classifier failure is fatal and not retried: once analyze_image
\* has raised VisionAPIError the classifier has been called exactly once, no
\* link has been built, no validation fetch has been issued, and the request
\* ends with HTTP 503
C18_ClassifierFailureFatal ==
    vision_error # "" =>
        /\ vision_calls = 1
        /\ links = <<>>
        /\ pc = "none"
        /\ fetches = 0
        /\ Responded
        /\ response.status = 503
        /\ response.links = <<>>

\* a request whose classifier timed out has completed
C18_Witness ==
    /\ rpc = "finished"
    /\ vision_error = "Vision API request timed out"
    /\ vision_calls = 1
    /\ response.status = 503

\* C19: the 503 response does not depend on the classifier's error: whatever
\* the message of the VisionAPIError, the response has status 503 and the
\* fixed detail, which is none of the messages
C19_FixedServiceUnavailable ==
    (vision_error # "" \/ response.status = 503) =>
        /\ response = [status |-> 503,
                       detail |-> "Image analysis failed. Please try again later.",
                       links |-> <<>>]
        /\ response.detail \notin VisionErrorMessages

\* a request whose classifier failed with the message "API unavailable" has
\* been answered
C19_Witness ==
    /\ Responded
    /\ vision_error = "API unavailable"
    /\ response.status = 503
    /\ response.detail # vision_error

\* the upload is one the claim C20 lists: too large, empty, without a
\* filename, with an extension outside the allowed set, or not starting
\* with a known image signature
InvalidUpload ==
    \/ upload.size > MAX_UPLOAD_SIZE_MB * 1024 * 1024
    \/ upload.size = 0
    \/ upload.filename = <<>>
    \/ Lower(Suffix(upload.filename)) \notin ALLOWED_EXTENSIONS
    \/ ~\E i \in 1..Len(IMAGE_MAGIC_NUMBERS) :
            StartsWith(upload.content, IMAGE_MAGIC_NUMBERS[i].magic)

\* C20: a request with such an upload ends with HTTP 400, writes no temp
\* file and never calls the classifier
C20_InvalidUploadRejected ==
    (rpc # "none" /\ InvalidUpload) =>
        /\ temp_file = "none"
        /\ vision_calls = 0
        /\ rpc \in {"received", "finally", "finished"}
        /\ Responded => response.status = 400

\* a well-named file that is no image has been rejected
C20_Witness ==
    /\ rpc = "finished"
    /\ upload = [BaseUpload EXCEPT !.content = TextHead]
    /\ response.status = 400
    /\ temp_file = "none"
    /\ vision_calls = 0

\* C21: every successful (HTTP 200) response carries at least one link and
\* at most min(number of phrases, 5) links, with validation on or off and
\* whatever the validation fetches met
C21_SuccessHasLinks ==
    (Responded /\ response.status = 200) =>
        /\ Len(response.links) >= 1
        /\ Len(response.links) <= Min(Len(analysis.search_queries), 5)

\* a validated request whose three pages all said "no results" has answered
\* 200 with one link
C21_Witness ==
    /\ rpc = "finished"
    /\ settings.link_validation_enabled
    /\ Len(analysis.search_queries) = 3
    /\ \A i \in 1..3 : NoResults(i)
    /\ response.status = 200
    /\ Len(response.links) = 1

\* classification succeeded: analyze_image returned a result
Classified == analysis # NoAnalysis

\* C22: validator failures never fail the request: the validator always
\* returns a list to the handler, and a request whose upload was accepted
\* and whose classification succeeded ends with HTTP 200, also when every
\* validation fetch timed out or failed
C22_ValidatorNeverFailsRequest ==
    /\ (Classified /\ Responded) =>
          /\ response.status = 200
          /\ pc \in {"done", "skipped"}
    /\ (Classified /\ pc = "done") => Len(valid_links) >= 1

\* a request whose three validation fetches all timed out or failed has
\* answered 200
C22_Witness ==
    /\ rpc = "finished"
    /\ Len(outcome) = 3
    /\ outcome[1] = "timeout"
    /\ outcome[2] = "connect_error"
    /\ outcome[3] = "http_status"
    /\ response.status = 200

----------------------------------------------------------------------------
(* The classifier call *)

\* analyze_image has been applied
AnalyzeImageReturned == fn.name = "analyze_image" /\ fn_out.returned

(* C23, as claimed: analyze_image has exactly two outcomes: it returns a   *)
(* result that satisfies the classification schema, or it raises           *)
(* VisionAPIError; no other exception escapes it                           *)
C23_TwoOutcomes ==
    AnalyzeImageReturned =>
        \/ fn_out.value.kind = "returned" /\ SchemaValid(fn_out.value.value)
        \/ fn_out.value.kind = "VisionAPIError"

----------------------------------------------------------------------------
(* Concurrency of the validation fetches *)

\* C24: the fetches of one validate call are isolated: a step in which one
\* link's fetch resolves (with a page, a timeout or an error) resolves
\* that link alone and leaves every other link's slot, outcome and GET
\* count as they were, so no other fetch is cancelled; and when the call
\* is done every link has had its own GET and a link whose fetch timed out
\* or failed is classified "has results" whatever the other fetches met
C24_FetchesIsolated ==
    /\ [][(pc = "gather" /\ results' # results) =>
            \E i \in 1..Len(links) :
                /\ results[i].state = "pending"
                /\ results'[i].state # "pending"
                /\ \A j \in (1..Len(links)) \ {i} :
                      /\ results'[j] = results[j]
                      /\ outcome'[j] = outcome[j]
                      /\ gets'[j] = gets[j]]_vars
    /\ [](Done => \A j \in 1..Len(links) :
                    /\ gets[j] = 1
                    /\ outcome[j] = "page" => results[j].state = "returned"
                    /\ outcome[j] \in FetchErrorKinds => results[j] = Returned(links[j], TRUE))

\* the first link's fetch timed out, the second link's own page said "no
\* results" and the third link's own page had results
C24_Witness ==
    /\ Done
    /\ Len(links) = 3
    /\ outcome[1] = "timeout"
    /\ outcome[2] = "page" /\ NoResults(2)
    /\ outcome[3] = "page" /\ HasResults(3)
    /\ valid_links = <<links[1], links[3]>>

\* C25: the returned list does not depend on the order in which the fetches
\* complete: whatever the interleaving, when the call returns the slot of
\* position i holds the result of link i's own fetch, and the returned list
\* is determined by the input list and the per-link classifications alone:
\* the links classified "has results" in input order, or the first link
\* when there is none
C25_OrderIndependent ==
    (Done /\ links # <<>>) =>
        /\ Len(results) = Len(links)
        /\ \A i \in 1..Len(links) :
              /\ results[i].state = "returned" => results[i].value[1] = links[i]
              /\ results[i].state = "raised" <=> outcome[i] = "cancelled"
        /\ IF KeptPositions = {}
           THEN valid_links = <<links[1]>>
           ELSE IsSubsequenceAt(valid_links, links, KeptPositions)

\* three links, the first and the third found without results: the middle
\* one, which differs from them, is the list returned
C25_Witness ==
    /\ Done
    /\ Len(links) = 3
    /\ links[2] # links[1]
    /\ outcome = <<"page", "page", "page">>
    /\ NoResults(1) /\ HasResults(2) /\ NoResults(3)
    /\ valid_links = <<links[2]>>

\* C26: filtering and the fallback decision happen only after every task of
\* the call has resolved: the step in which the call leaves the gather, and
\* any step that sets the returned list while tasks were spawned, starts
\* from a state with no pending slot; a call that has returned has none
C26_FilterAfterAllResolved ==
    /\ [][(pc = "gather" /\ (pc' # "gather" \/ valid_links' # valid_links)) =>
            \A i \in 1..Len(results) : results[i].state # "pending"]_vars
    /\ [](Done => /\ Len(results) = Len(links)
                  /\ \A i \in 1..Len(results) :
                        /\ results[i].state # "pending"
                        /\ outcome[i] # "pending"
                        /\ gets[i] >= 1)

\* the fallback was applied after all three fetches had resolved, the last
\* of them without results
C26_Witness ==
    /\ Done
    /\ Len(links) = 3
    /\ \A i \in 1..3 : gets[i] = 1 /\ outcome[i] = "page" /\ NoResults(i)
    /\ valid_links = <<links[1]>>

\* C27: assuming every fetch yields a response or fails, at the latest by
\* its timeout, every call of validate_marketplace_links eventually returns
\* its list: no slow link keeps the call from completing
C27_CallReturns == (pc = "built") ~> (pc = "done" /\ (links # <<>> => valid_links # <<>>))

\* a call whose second fetch ran into its timeout has returned
C27_Witness ==
    /\ Done
    /\ Len(links) = 3
    /\ outcome = <<"page", "timeout", "page">>
    /\ Len(valid_links) >= 1

----------------------------------------------------------------------------
(* The temp file of the request *)

(* C28, as claimed: once a request has written its temp upload file, that  *)
(* file no longer exists when the request completes, on every path         *)
C28_TempFileGone ==
    (rpc = "finished" /\ temp_file # "none") => temp_file = "removed"

\* C28, amended: a request that has written its temp file attempts to
\* remove it before it completes, on every path (200, 503 and 500): when
\* the request completes the file is gone or os.remove has failed, in which
\* case the failure is logged and the file stays; the file is never left
\* without a removal attempt
C28_TempFileRemovalAttempted ==
    /\ rpc = "finished" => temp_file \in {"none", "removed", "remove_failed"}
    /\ (rpc = "finished" /\ response.status \in {200, 503, 500}) =>
            temp_file \in {"removed", "remove_failed"}
    /\ temp_file \in {"removed", "remove_failed"} => rpc = "finished"

\* a request that ended with an unexpected error (500) after writing its
\* temp file has removed it
C28_Witness ==
    /\ rpc = "finished"
    /\ response.status = 500
    /\ temp_file = "removed"

----------------------------------------------------------------------------
(* Concurrent requests *)

\* request r has written its temp file and has not completed
HoldsTempFile(r) == requests[r].rpc \in {"saved", "read", "validating"}

\* the status request r must end with, given its own upload and the
\* outcome of its own classifier call
OwnStatus(r) ==
    IF UploadError(requests[r].upload) # "" THEN 400
    ELSE CASE requests[r].vision = "returned" -> 200
           [] requests[r].vision = "VisionAPIError" -> 503
           [] requests[r].vision = "Exception" -> 500
           [] OTHER -> 0

\* C29: concurrent requests do not interfere: the temp files of two
\* requests never share a name; a request that has written its temp file
\* and has not completed still finds it, and no step of another request
\* removes it; and the response of a completed request is decided by its
\* own upload and its own classifier and validation outcomes
C29_RequestsIsolated ==
    /\ [](\A r \in DOMAIN requests :
            /\ \A s \in DOMAIN requests \ {r} :
                  requests[r].temp_path # 0 => requests[r].temp_path # requests[s].temp_path
            /\ HoldsTempFile(r) => requests[r].temp_path \in files
            /\ requests[r].rpc = "finished" =>
                  /\ requests[r].status = OwnStatus(r)
                  /\ requests[r].status = 200 =>
                        requests[r].links = build_marketplace_links(ConcAnalysis, DEFAULT_MAX_LINKS))
    /\ [][\A r \in DOMAIN requests :
            (requests'[r] = requests[r] /\ HoldsTempFile(r)) =>
                requests[r].temp_path \in files']_vars

\* the first request has completed and removed its temp file while the
\* second one's file, written earlier, is still there to be read
C29_Witness ==
    /\ requests # <<>>
    /\ requests[1].rpc = "finished"
    /\ requests[1].status = 200
    /\ requests[1].temp_path \notin files
    /\ requests[2].rpc = "saved"
    /\ requests[2].temp_path \in files

----------------------------------------------------------------------------
(* The signature check of the upload *)

(* C30, as claimed: validate_image_magic_numbers accepts a file whose      *)
(* header starts with 'RIFF' as image/webp only if bytes 8 to 11 of the    *)
(* file are 'WEBP'; a RIFF file without the WEBP signature is rejected     *)
(* with ImageValidationError (the request ends with 400 and the message of *)
(* that error)                                                             *)
C30_RiffNeedsWebp ==
    (/\ Responded
     /\ StartsWith(upload.content, <<"R", "I", "F", "F">>)
     /\ PySub(upload.content, 8, 12) # <<"W", "E", "B", "P">>) =>
        /\ validate_image_magic_numbers(upload.content) = ""
        /\ response.status = 400
        /\ response.detail = "File is not a valid image (invalid magic numbers)"

====
